---- MODULE Spec2Model ----
(***************************************************************************)
(* FilmService: a movie catalog over one table `movies`, five HTTP         *)
(* endpoints, an OMDB client and a startup seeding routine.                *)
(*                                                                         *)
(* The storage engine is the default one of config.py (SQLite): a UNIQUE   *)
(* constraint treats NULLs as distinct, and an INTEGER PRIMARY KEY without *)
(* AUTOINCREMENT is assigned max(id)+1.                                    *)
(***************************************************************************)
EXTENDS Integers, Sequences, FiniteSets, TLC

(* ---------------------------------------------------------------- values *)

\* Python's None, and a MovieUpdate field that the request did not set.
None == "<None>"
Unset == "<Unset>"

\* Truthiness of an Optional[str]: None and "" are falsy.
Truthy(v) == v # None /\ v # ""

\* Python's `a or b`.
PyOr(a, b) == IF Truthy(a) THEN a ELSE b

\* main.py:155 `current_count >= 10`, main.py:160 `limit=10`.
MinCount == 10
SeedLimit == 10

(* ---------------------------------------------------------------- bounds *)

\* Rows a behaviour may add beyond the preloaded ones (ids are capped at
\* preloaded + MaxNew).
MaxNew == 2

\* Request and provider values.
Titles == {"A"}
Years == {None, "", "2021", "2022"}
Descriptions == {None, "p"}
OmdbYears == {None, "2022"}
OmdbPlots == {"o"}

\* Create requests handled at the same time.
MaxWorkers == 2
Workers == 1 .. MaxWorkers

\* Rows the database file may hold when the process starts.
FillerTitles == <<"F1", "F2", "F3", "F4", "F5", "F6", "F7", "F8", "F9">>
InitCounts == {0, Len(FillerTitles)}

VARIABLES
    movies,        \* the table: a set of rows [id, title, year, description]
    omdb_api_key,  \* settings.omdb_api_key is non-empty
    preloaded,     \* rows in the database file at the first start
    pc,            \* "startup" | "search" | "loop" | "serving"
    titles,        \* seeding: the titles still to look up
    last,          \* the outcome of the latest operation
    reqs           \* the create requests in flight, one per worker

vars == <<movies, omdb_api_key, preloaded, pc, titles, last, reqs>>

(* ------------------------------------------------------------ the table *)

Row(id, title, year, description) ==
    [id |-> id, title |-> title, year |-> year, description |-> description]

\* The row of lowest id of a non-empty result set, as {row}; {} for None.
First(q) == IF q = {} THEN {} ELSE {CHOOSE m \in q : \A n \in q : m.id <= n.id}

\* The id the engine assigns on insert.
NextId(db) == IF db = {} THEN 1 ELSE (CHOOSE i \in {m.id : m \in db} : \A m \in db : m.id <= i) + 1

\* The table's constraints: title NOT NULL, id unique, (title, year) unique
\* with NULL years distinct from each other.
NullsDistinct == TRUE

uq_title_year(db) ==
    \A m \in db : \A n \in db :
        (m.id # n.id /\ m.title = n.title /\ m.year = n.year)
            => (NullsDistinct /\ m.year = None)

Constraints(db) ==
    /\ \A m \in db : m.title # None
    /\ \A m \in db : \A n \in db : m.id = n.id => m = n
    /\ uq_title_year(db)

(* ----------------------------------------------------------- repository *)
\* A repository call returns [db, row, ok]: the table after it, its result
\* ({} for None and False) and whether it returned (FALSE: it raised).

Ret(db, row, ok) == [db |-> db, row |-> row, ok |-> ok]

create_movie(db, data) ==
    LET movie == Row(NextId(db), data.title, data.year, data.description)
    IN  IF Constraints(db \cup {movie})
        THEN Ret(db \cup {movie}, {movie}, TRUE)
        ELSE Ret(db, {}, FALSE)

get_movie(db, movie_id) == First({m \in db : m.id = movie_id})

\* get_by_title_year with `if year:` forgotten: the year is always filtered.
get_by_title_year_AlwaysYear(db, title, year) ==
    First({m \in db : m.title = title /\ m.year = year})

get_by_title_year(db, title, year) ==
    LET q == {m \in db : m.title = title}
    IN  IF Truthy(year) THEN First({m \in q : m.year = year}) ELSE First(q)

count_movies(db) == Cardinality(db)

\* model_dump() without exclude_unset: an unset field is dumped as None.
model_dump_all(data) ==
    [k \in {"title", "year", "description"} |->
        IF data[k] = Unset THEN None ELSE data[k]]

\* MovieUpdate.model_dump(exclude_unset=True): the fields the request set.
model_dump_exclude_unset(data) ==
    [k \in {f \in {"title", "year", "description"} : data[f] # Unset} |-> data[k]]

update_movie(db, movie_id, data) ==
    LET found == get_movie(db, movie_id)
    IN  IF found = {} THEN Ret(db, {}, TRUE)
        ELSE LET old == CHOOSE m \in found : TRUE
                 d == model_dump_exclude_unset(data)
                 movie == Row(old.id,
                              IF "title" \in DOMAIN d THEN d.title ELSE old.title,
                              IF "year" \in DOMAIN d THEN d.year ELSE old.year,
                              IF "description" \in DOMAIN d THEN d.description
                                                            ELSE old.description)
                 after == (db \ {old}) \cup {movie}
             IN  IF Constraints(after) THEN Ret(after, {movie}, TRUE)
                                       ELSE Ret(db, {}, FALSE)

\* delete_movie with db.delete(movie) forgotten.
delete_movie_NoDelete(db, movie_id) ==
    Ret(db, get_movie(db, movie_id), TRUE)

delete_movie(db, movie_id) ==
    LET found == get_movie(db, movie_id)
    IN  IF found = {} THEN Ret(db, {}, TRUE) ELSE Ret(db \ found, found, TRUE)

\* ensure_movie without the lookup: it always inserts.
ensure_movie_AlwaysCreate(db, title, year, description) ==
    create_movie(db, [title |-> title, year |-> year, description |-> description])

\* ensure_movie without the insert: it returns what the lookup found.
ensure_movie_NeverCreate(db, title, year, description) ==
    Ret(db, get_by_title_year(db, title, year), TRUE)

ensure_movie(db, title, year, description) ==
    LET existing == get_by_title_year(db, title, year)
    IN  IF existing # {} THEN Ret(db, existing, TRUE)
        ELSE IF title = None THEN Ret(db, {}, FALSE)
        ELSE create_movie(db, [title |-> title, year |-> year,
                               description |-> description])

(* ------------------------------------------------------------- provider *)
\* What the HTTP call to OMDB yields: a transport failure, or a JSON body.

Reply(kind, response, title, year, plot) ==
    [kind |-> kind, Response |-> response, Title |-> title, Year |-> year,
     Plot |-> plot]

\* The replies to a lookup of `title`; OMDB answers with the title it was
\* asked, or with a body that carries no Title.
LookupReplies(title) ==
    {Reply("error", None, None, None, None), Reply("json", "False", None, None, None)}
    \cup {Reply("json", "True", title, y, d) : y \in OmdbYears, d \in OmdbPlots}
    \cup {Reply("json", "True", None, None, d) : d \in OmdbPlots}

NoReply == Reply("none", None, None, None, None)

SearchLists == {<<>>, <<"A">>, <<"A", "A">>, <<None, "A">>}

SearchReply(kind, response, search) ==
    [kind |-> kind, Response |-> response, Search |-> search]

SearchReplies ==
    {SearchReply("error", None, <<>>), SearchReply("json", "False", <<>>)}
    \cup {SearchReply("json", "True", l) : l \in SearchLists}

\* A client call returns [kind, ...]: "raise", "none" or "dict" / "list".
Omdb(kind, title, year, description) ==
    [kind |-> kind, title |-> title, year |-> year, description |-> description]

NotCalled == Omdb("notcalled", None, None, None)

fetch_movie_from_omdb(key, title, reply) ==
    IF ~key THEN Omdb("none", None, None, None)
    ELSE IF reply.kind = "error" THEN Omdb("raise", None, None, None)
    ELSE IF reply.Response = "True"
         THEN Omdb("dict", reply.Title, reply.Year, reply.Plot)
         ELSE Omdb("none", None, None, None)

Take(s, n) == SubSeq(s, 1, IF Len(s) < n THEN Len(s) ELSE n)

RECURSIVE TruthyTitles(_)
TruthyTitles(s) ==
    IF s = <<>> THEN <<>>
    ELSE IF Truthy(Head(s)) THEN <<Head(s)>> \o TruthyTitles(Tail(s))
    ELSE TruthyTitles(Tail(s))

fetch_monitor_movies(key, limit, reply) ==
    IF ~key THEN [kind |-> "list", titles |-> <<>>]
    ELSE IF reply.kind = "error" THEN [kind |-> "raise", titles |-> <<>>]
    ELSE IF reply.Response = "True"
         THEN [kind |-> "list", titles |-> TruthyTitles(Take(reply.Search, limit))]
         ELSE [kind |-> "list", titles |-> <<>>]

(* -------------------------------------------------------------- requests *)

Payloads == [title : Titles, year : Years, description : Descriptions]

\* PUT bodies: no field, any one field (a value or null), or all three.
Updates ==
    {u \in [title : {Unset, None, "A"}, year : {Unset, None, "2021"},
            description : {Unset, None, "p"}] :
        \/ Cardinality({k \in {"title", "year", "description"} : u[k] # Unset}) <= 1
        \/ u = [title |-> "A", year |-> "2021", description |-> "p"]}

\* Ids a request may name: the rows added beyond the preloaded ones.
ReqIds == (preloaded + 1) .. (preloaded + MaxNew)

\* The latest operation: what was asked (req), what the provider client
\* returned (omdb), the status, the id of the row returned and the calls of
\* fetch_movie_from_omdb it made; for the seeding run also the calls of
\* fetch_monitor_movies, count_movies' answer, the lookups that returned data
\* and the (title, year) pairs handed to ensure_movie.
NoReq == [title |-> None, year |-> None, description |-> None]

NoRun == [searches |-> 0, start |-> 0, hits |-> 0, ensured |-> {}]

Outcome(op, status, id, req, omdb, lookups, run) ==
    [op |-> op, status |-> status, id |-> id, req |-> req, omdb |-> omdb,
     lookups |-> lookups, searches |-> run.searches, start |-> run.start,
     hits |-> run.hits, ensured |-> run.ensured]

IdOf(row) == IF row = {} THEN 0 ELSE (CHOOSE m \in row : TRUE).id

\* The enrichment condition with `and` for `or`.
NeedsLookup_Both(incoming) ==
    ~Truthy(incoming.year) /\ ~Truthy(incoming.description)

\* main.py:38: the enrichment condition.
NeedsLookup(incoming) ==
    ~Truthy(incoming.year) \/ ~Truthy(incoming.description)

\* The enrichment with the operands of `or` swapped: provider values win.
Enrich_ProviderWins(incoming, omdb) ==
    IF omdb.kind = "dict"
    THEN [incoming EXCEPT !.year = PyOr(omdb.year, incoming.year),
                          !.description = PyOr(omdb.description, incoming.description)]
    ELSE incoming

\* main.py:40-42: payload values win over provider values.
Enrich(incoming, omdb) ==
    IF omdb.kind = "dict"
    THEN [incoming EXCEPT !.year = PyOr(incoming.year, omdb.year),
                          !.description = PyOr(incoming.description, omdb.description)]
    ELSE incoming

\* The create flow without its duplicate pre-check.
IsDuplicate_Never(db, incoming) == FALSE

\* main.py:43: the duplicate pre-check.
IsDuplicate(db, incoming) ==
    get_by_title_year(db, incoming.title, incoming.year) # {}

\* What the lookup contributes to the request: its kind, year and description.
Seen(omdb) == Omdb(omdb.kind, None, omdb.year, omdb.description)

create_movie_endpoint(payload, reply) ==
    /\ pc = "serving"
    /\ LET needs == NeedsLookup(payload)
           omdb == IF needs THEN fetch_movie_from_omdb(omdb_api_key, payload.title, reply)
                            ELSE NotCalled
           n == IF needs THEN 1 ELSE 0
           incoming == IF needs THEN Enrich(payload, omdb) ELSE payload
           r == create_movie(movies, incoming)
       IN  IF omdb.kind = "raise"
           THEN /\ movies' = movies
                /\ last' = Outcome("create", 500, 0, payload, Seen(omdb), n, NoRun)
           ELSE IF IsDuplicate(movies, incoming)
           THEN /\ movies' = movies
                /\ last' = Outcome("create", 409, 0, payload, Seen(omdb), n, NoRun)
           ELSE IF r.ok
           THEN /\ NextId(movies) <= preloaded + MaxNew
                /\ movies' = r.db
                /\ last' = Outcome("create", 201, IdOf(r.row), payload, Seen(omdb), n, NoRun)
           ELSE /\ movies' = movies
                /\ last' = Outcome("create", 500, 0, payload, Seen(omdb), n, NoRun)
    /\ UNCHANGED <<omdb_api_key, preloaded, pc, titles, reqs>>

get_movie_endpoint(movie_id) ==
    /\ pc = "serving"
    /\ LET movie == get_movie(movies, movie_id)
       IN  last' = Outcome("get", IF movie = {} THEN 404 ELSE 200, movie_id,
                           NoReq, NotCalled, 0, NoRun)
    /\ UNCHANGED <<movies, omdb_api_key, preloaded, pc, titles, reqs>>

update_movie_endpoint(movie_id, payload) ==
    /\ pc = "serving"
    /\ LET r == update_movie(movies, movie_id, payload)
       IN  /\ movies' = r.db
           /\ last' = Outcome("update",
                              IF ~r.ok THEN 500 ELSE IF r.row = {} THEN 404 ELSE 200,
                              movie_id, payload, NotCalled, 0, NoRun)
    /\ UNCHANGED <<omdb_api_key, preloaded, pc, titles, reqs>>

delete_movie_endpoint(movie_id) ==
    /\ pc = "serving"
    /\ LET r == delete_movie(movies, movie_id)
       IN  /\ movies' = r.db
           /\ last' = Outcome("delete", IF r.row = {} THEN 404 ELSE 204, movie_id,
                              NoReq, NotCalled, 0, NoRun)
    /\ UNCHANGED <<omdb_api_key, preloaded, pc, titles, reqs>>

(* ---------------------------------------------------- concurrent creates *)
\* create_movie_endpoint step by step, for requests handled by workers that
\* share the database: the lookup (main.py:39-42), the duplicate pre-check
\* (main.py:43-44) and the insert with its commit (main.py:45) of one request
\* interleave with those of the others.

\* A request: its position, the payload, `incoming`, and the response.
Req(at, payload, incoming, status, id) ==
    [at |-> at, payload |-> payload, incoming |-> incoming, status |-> status,
     id |-> id]

Idle == Req("idle", NoReq, NoReq, 0, 0)

\* main.py:37-38: the payload is dumped and the enrichment condition tested.
CreateReceive(w, payload) ==
    /\ pc = "serving"
    /\ reqs[w].at = "idle"
    /\ reqs' = [reqs EXCEPT ![w] =
                    Req(IF NeedsLookup(payload) THEN "lookup" ELSE "check",
                        payload, payload, 0, 0)]
    /\ UNCHANGED <<movies, omdb_api_key, preloaded, pc, titles, last>>

\* main.py:39-42: the lookup and the enrichment.
CreateLookup(w, reply) ==
    /\ reqs[w].at = "lookup"
    /\ LET omdb == fetch_movie_from_omdb(omdb_api_key, reqs[w].payload.title, reply)
       IN  reqs' = [reqs EXCEPT ![w] =
                       IF omdb.kind = "raise"
                       THEN Req("done", @.payload, @.incoming, 500, 0)
                       ELSE Req("check", @.payload, Enrich(@.payload, omdb), 0, 0)]
    /\ UNCHANGED <<movies, omdb_api_key, preloaded, pc, titles, last>>

\* main.py:43-44: the duplicate pre-check.
CreateCheck(w) ==
    /\ reqs[w].at = "check"
    /\ reqs' = [reqs EXCEPT ![w] =
                    IF IsDuplicate(movies, @.incoming)
                    THEN Req("done", @.payload, @.incoming, 409, 0)
                    ELSE Req("insert", @.payload, @.incoming, 0, 0)]
    /\ UNCHANGED <<movies, omdb_api_key, preloaded, pc, titles, last>>

\* main.py:45: create_movie adds the row and commits; a commit the table
\* rejects raises IntegrityError, which nothing handles.
CreateInsert(w) ==
    /\ reqs[w].at = "insert"
    /\ LET r == create_movie(movies, reqs[w].incoming)
       IN  /\ movies' = r.db
           /\ reqs' = [reqs EXCEPT ![w] =
                           IF r.ok THEN Req("done", @.payload, @.incoming, 201, IdOf(r.row))
                                   ELSE Req("done", @.payload, @.incoming, 500, 0)]
    /\ UNCHANGED <<omdb_api_key, preloaded, pc, titles, last>>

(* --------------------------------------------------------------- seeding *)
\* seed_movies_if_less_than_10, one step per await; it runs to its end before
\* the application serves requests.

\* The threshold test with `>` for `>=`.
SeedSkips_Strict(current_count) == current_count > MinCount

\* main.py:155: the routine stops when the catalog is large enough.
SeedSkips(current_count) == current_count >= MinCount

\* The handler with no `except`: a failure ends the process start.
seed_except_Escapes(db) == [pc |-> "crashed", db |-> db]

\* main.py:168-169 `except Exception`: the failure is logged, the routine
\* returns and the table stays as the commits before the failure left it.
seed_except(db) == [pc |-> "serving", db |-> db]

\* `fault`: the storage engine fails the count query.
SeedCount(fault) ==
    /\ pc = "startup"
    /\ LET current_count == count_movies(movies)
           run == [NoRun EXCEPT !.start = current_count]
       IN  IF fault
           THEN /\ pc' = seed_except(movies).pc
                /\ movies' = seed_except(movies).db
                /\ last' = Outcome("seed", "failed", 0, NoReq, NotCalled, 0, NoRun)
           ELSE IF SeedSkips(current_count)
           THEN /\ pc' = "serving"
                /\ movies' = movies
                /\ last' = Outcome("seed", "skipped", 0, NoReq, NotCalled, 0, run)
           ELSE /\ pc' = "search"
                /\ movies' = movies
                /\ last' = Outcome("seed", "counted", 0, NoReq, NotCalled, 0, run)
    /\ UNCHANGED <<omdb_api_key, preloaded, titles, reqs>>

SeedSearch(reply) ==
    /\ pc = "search"
    /\ LET res == fetch_monitor_movies(omdb_api_key, SeedLimit, reply)
       IN  IF res.kind = "raise"
           THEN /\ pc' = seed_except(movies).pc
                /\ movies' = seed_except(movies).db
                /\ titles' = <<>>
                /\ last' = [last EXCEPT !.status = "failed", !.searches = @ + 1]
           ELSE /\ pc' = "loop"
                /\ movies' = movies
                /\ titles' = res.titles
                /\ last' = [last EXCEPT !.status = "searched", !.searches = @ + 1]
    /\ UNCHANGED <<omdb_api_key, preloaded, reqs>>

SeedLookup(reply) ==
    /\ pc = "loop"
    /\ titles # <<>>
    /\ LET data == fetch_movie_from_omdb(omdb_api_key, Head(titles), reply)
           r == ensure_movie(movies, data.title, data.year, data.description)
           n == last.lookups + 1
           run == [searches |-> last.searches, start |-> last.start,
                   hits |-> last.hits, ensured |-> last.ensured]
           hit == [run EXCEPT !.hits = @ + 1,
                              !.ensured = @ \cup {[title |-> data.title, year |-> data.year]}]
       IN  IF data.kind = "raise"
           THEN /\ pc' = seed_except(movies).pc
                /\ titles' = <<>>
                /\ movies' = seed_except(movies).db
                /\ last' = Outcome("seed", "failed", 0, NoReq, NotCalled, n, run)
           ELSE IF data.kind = "none"
           THEN /\ pc' = pc
                /\ titles' = Tail(titles)
                /\ movies' = movies
                /\ last' = Outcome("lookup", "absent", 0, NoReq, NotCalled, n, run)
           ELSE IF ~r.ok
           THEN /\ pc' = seed_except(r.db).pc
                /\ titles' = <<>>
                /\ movies' = seed_except(r.db).db
                /\ last' = Outcome("seed", "failed", 0,
                                   [title |-> data.title, year |-> data.year,
                                    description |-> data.description],
                                   NotCalled, n, hit)
           ELSE /\ r.db # movies => NextId(movies) <= preloaded + MaxNew
                /\ pc' = pc
                /\ titles' = Tail(titles)
                /\ movies' = r.db
                /\ last' = Outcome("ensure",
                                   IF r.db = movies THEN "existing" ELSE "created",
                                   IdOf(r.row),
                                   [title |-> data.title, year |-> data.year,
                                    description |-> data.description],
                                   NotCalled, n, hit)
    /\ UNCHANGED <<omdb_api_key, preloaded, reqs>>

SeedFinish ==
    /\ pc = "loop"
    /\ titles = <<>>
    /\ pc' = "serving"
    /\ last' = [last EXCEPT !.op = "seed", !.status = "finished", !.id = 0,
                            !.req = NoReq]
    /\ UNCHANGED <<movies, omdb_api_key, preloaded, titles, reqs>>

\* The process is started again: settings are read anew, the table persists.
Restart(key) ==
    /\ pc = "serving"
    /\ pc' = "startup"
    /\ omdb_api_key' = key
    /\ last' = Outcome("start", "starting", 0, NoReq, NotCalled, 0, NoRun)
    /\ UNCHANGED <<movies, preloaded, titles, reqs>>

(* --------------------------------------------------------- specification *)

Preloaded(n) == {Row(i, FillerTitles[i], None, None) : i \in 1..n}

Init ==
    /\ preloaded \in InitCounts
    /\ movies = Preloaded(preloaded)
    /\ omdb_api_key \in BOOLEAN
    /\ pc = "startup"
    /\ titles = <<>>
    /\ last = Outcome("start", "starting", 0, NoReq, NotCalled, 0, NoRun)
    /\ reqs = [w \in Workers |-> Idle]

Next ==
    \/ \E payload \in Payloads :
           \E reply \in IF NeedsLookup(payload) /\ omdb_api_key
                          THEN LookupReplies(payload.title) ELSE {NoReply} :
               create_movie_endpoint(payload, reply)
    \/ \E movie_id \in ReqIds : get_movie_endpoint(movie_id)
    \/ \E movie_id \in ReqIds, payload \in Updates :
           update_movie_endpoint(movie_id, payload)
    \/ \E movie_id \in ReqIds : delete_movie_endpoint(movie_id)
    \/ \E fault \in BOOLEAN : SeedCount(fault)
    \/ \E reply \in IF omdb_api_key THEN SearchReplies ELSE {SearchReply("none", None, <<>>)} :
           SeedSearch(reply)
    \/ \E reply \in IF omdb_api_key /\ titles # <<>>
                      THEN LookupReplies(Head(titles)) ELSE {NoReply} :
           SeedLookup(reply)
    \/ SeedFinish
    \/ \E key \in BOOLEAN : Restart(key)

Spec == Init /\ [][Next]_vars

\* The startup handler is awaited to its end before requests are served, and
\* each provider call returns or raises within its timeout (omdb_api.py:26,
\* 54): a step of the seeding routine that can be taken is taken.
SeedStep ==
    \/ \E fault \in BOOLEAN : SeedCount(fault)
    \/ \E reply \in IF omdb_api_key THEN SearchReplies ELSE {SearchReply("none", None, <<>>)} :
           SeedSearch(reply)
    \/ \E reply \in IF omdb_api_key /\ titles # <<>>
                      THEN LookupReplies(Head(titles)) ELSE {NoReply} :
           SeedLookup(reply)
    \/ SeedFinish

SeedSpec == Spec /\ WF_vars(SeedStep)

\* The application started once and several workers create movies.
ConcNext ==
    \/ SeedStep
    \/ \E w \in Workers, payload \in Payloads : CreateReceive(w, payload)
    \/ \E w \in Workers :
           \E reply \in IF omdb_api_key THEN LookupReplies(reqs[w].payload.title)
                                         ELSE {NoReply} :
               CreateLookup(w, reply)
    \/ \E w \in Workers : CreateCheck(w)
    \/ \E w \in Workers : CreateInsert(w)

ConcSpec == Init /\ [][ConcNext]_vars

(* ---------------------------------------------------------------- claims *)

\* The row the latest operation returned.
LastRow == get_movie(movies, last.id)

\* C1: in every reachable state no two stored records share the same
\* (title, year) pair, two records with an absent year included.
C1_UniqueTitleYear ==
    \A m \in movies : \A n \in movies :
        (m.title = n.title /\ m.year = n.year) => m.id = n.id

SameYear(a, b) == a = b \/ (~Truthy(a) /\ ~Truthy(b))

\* The year the duplicate check receives: the payload's year if non-empty,
\* else the provider's year when the lookup returned data, else the payload's.
NonEmptyOrProvided(supplied, omdb, field) ==
    IF Truthy(supplied) THEN supplied
    ELSE IF omdb.kind = "dict" THEN omdb[field] ELSE supplied

\* C3 as stated: a create that reaches the duplicate check returns 409 exactly
\* when a record with the payload's title and the enriched year is stored (an
\* empty year read as an absent one), and otherwise returns 201.
C3_ConflictIffSamePair ==
    [][(last'.op = "create" /\ last'.omdb.kind # "raise")
       => LET y == NonEmptyOrProvided(last'.req.year, last'.omdb, "year")
              dup == \E m \in movies : m.title = last'.req.title /\ SameYear(m.year, y)
          IN  /\ dup => last'.status = 409
              /\ ~dup => last'.status = 201]_vars

\* C3 amended: a create that reaches the duplicate check returns 409 and
\* writes nothing when a record with the payload's title is stored whose year
\* equals the enriched year, or any record with that title when the enriched
\* year is absent or empty; otherwise it inserts exactly the enriched record
\* under a fresh id and returns 201.
C3_ConflictIffLookupMatches ==
    [][(last'.op = "create" /\ last'.omdb.kind # "raise")
       => LET y == NonEmptyOrProvided(last'.req.year, last'.omdb, "year")
              d == NonEmptyOrProvided(last'.req.description, last'.omdb, "description")
              dup == \E m \in movies :
                         m.title = last'.req.title /\ (Truthy(y) => m.year = y)
          IN  /\ dup => last'.status = 409 /\ movies' = movies
              /\ ~dup => /\ last'.status = 201
                         /\ last'.id \notin {m.id : m \in movies}
                         /\ movies' = movies \cup {Row(last'.id, last'.req.title, y, d)}]_vars

\* C3 witness: a create without a year of its own was refused with 409 though
\* no stored record has its title and enriched year.
C3_Witness ==
    /\ last.op = "create" /\ last.status = 409
    /\ ~Truthy(NonEmptyOrProvided(last.req.year, last.omdb, "year"))
    /\ \A m \in movies : m.title = last.req.title => Truthy(m.year)
    /\ \E m \in movies : m.title = last.req.title

\* C4 as stated: a create whose payload has both year and description makes no
\* provider lookup; one that misses year or description makes exactly one.
C4_LookupIffMissing ==
    last.op = "create" =>
        last.lookups = IF last.req.year # None /\ last.req.description # None
                       THEN 0 ELSE 1

\* C4 amended: a create whose payload has a non-empty year and a non-empty
\* description makes no provider lookup; one whose year or description is
\* absent or empty makes exactly one, and when that lookup raises neither the
\* duplicate check nor the insert happens.
C4_LookupIffMissingOrEmpty ==
    last.op = "create" =>
        /\ last.lookups = IF Truthy(last.req.year) /\ Truthy(last.req.description)
                          THEN 0 ELSE 1
        /\ last.lookups = 0 <=> last.omdb.kind = "notcalled"
        /\ last.omdb.kind = "raise" => last.status = 500

\* C4 witness: a create with an empty year and a description made one lookup.
C4_Witness ==
    /\ last.op = "create" /\ last.req.year = "" /\ Truthy(last.req.description)
    /\ last.lookups = 1 /\ last.status = 201

\* C5 as stated: the record a create stores has the payload's year whenever
\* the payload supplied one (an empty year read as an absent one), and the
\* payload's description likewise.
C5_PayloadWins ==
    (last.op = "create" /\ last.status = 201) =>
        \A m \in LastRow :
            /\ last.req.year # None => SameYear(m.year, last.req.year)
            /\ last.req.description # None => m.description = last.req.description

\* C5 amended: the record a create stores has the payload's year whenever the
\* payload supplied a non-empty one, and the payload's description likewise;
\* a provider value is stored only in a field the payload left absent or empty.
C5_NonEmptyPayloadWins ==
    (last.op = "create" /\ last.status = 201) =>
        /\ LastRow # {}
        /\ \A m \in LastRow :
            /\ m.year = NonEmptyOrProvided(last.req.year, last.omdb, "year")
            /\ m.description =
                   NonEmptyOrProvided(last.req.description, last.omdb, "description")
            /\ Truthy(last.req.year) => m.year = last.req.year
            /\ Truthy(last.req.description) => m.description = last.req.description

\* C5 witness: a create that gave a year but no description was enriched by a
\* provider reply carrying another year, and kept its own year.
C5_Witness ==
    /\ last.op = "create" /\ last.status = 201
    /\ Truthy(last.req.year) /\ last.omdb.kind = "dict"
    /\ Truthy(last.omdb.year) /\ last.omdb.year # last.req.year
    /\ \E m \in LastRow : m.year = last.req.year /\ m.description = last.omdb.description

\* The records the two latest ensure calls created, when the latest step was
\* an ensure call that followed an ensure call.
CreatedByBoth ==
    (IF last.status = "created" THEN 1 ELSE 0) + (IF last'.status = "created" THEN 1 ELSE 0)

\* C6 as stated: two ensure calls in a row with identical arguments create
\* exactly one record between them, from whatever store; the second returns
\* the record the first returned and changes nothing.
C6_EnsureTwiceCreatesOne ==
    [][(last.op = "ensure" /\ last'.op = "ensure" /\ last'.req = last.req)
       => (/\ CreatedByBoth = 1
           /\ movies' = movies
           /\ last'.id = last.id)]_vars

\* C6 amended: two ensure calls in a row with identical arguments create at
\* most one record between them (one when the first call found no match,
\* none when it found one); the second creates nothing, leaves the store as
\* it is and returns the stored record that the first returned.
C6_EnsureTwiceCreatesAtMostOne ==
    [][(last.op = "ensure" /\ last'.op = "ensure" /\ last'.req = last.req)
       => (/\ last'.status = "existing"
           /\ CreatedByBoth <= 1
           /\ movies' = movies
           /\ last'.id = last.id
           /\ \E m \in get_movie(movies', last'.id) :
                  /\ m.title = last'.req.title
                  /\ Truthy(last'.req.year) => m.year = last'.req.year
                  /\ last.status = "created" =>
                         /\ m.year = last.req.year
                         /\ m.description = last.req.description)]_vars

\* C6 witness: the seeding loop called ensure for a pair it had already
\* ensured in this run and got the stored record back.
C6_Witness ==
    /\ last.op = "ensure" /\ last.status = "existing"
    /\ last.hits = 2 /\ Cardinality(last.ensured) = 1
    /\ Cardinality(movies) = last.start + 1

C8_DeletedStaysAbsent ==
    [][(last.op = "delete" /\ last.status = 204)
       => get_movie(movies', last.id) = {}]_vars

\* C8 amended: getById(id) yields "not found" right after delete(id) returned
\* true, and an id that is not found stays so through every operation but an
\* insert (a create or an ensure) that is assigned that id, which happens
\* only to an id above every stored id.
C8_DeletedAbsentUntilReassigned ==
    [][/\ (last'.op = "delete" /\ last'.status = 204)
              => (get_movie(movies, last'.id) # {} /\ get_movie(movies', last'.id) = {})
       /\ \A id \in 1..(preloaded + MaxNew) :
              (get_movie(movies, id) = {} /\ get_movie(movies', id) # {})
                  => /\ \/ last'.op = "create" /\ last'.status = 201
                        \/ last'.op = "ensure" /\ last'.status = "created"
                     /\ last'.id = id
                     /\ \A m \in movies : m.id < id]_vars

\* C8 witness: a delete returned true and its id is not found.
C8_Witness ==
    /\ last.op = "delete" /\ last.status = 204
    /\ get_movie(movies, last.id) = {}
    /\ movies # Preloaded(preloaded)

\* C9: when the seeding routine starts with 10 or more records it ends at
\* once: no search, no lookup, and the table as it was.
C9_SeedSkipsWhenFull ==
    [][(pc = "startup" /\ Cardinality(movies) >= 10)
       => (/\ pc' = "serving"
           /\ movies' = movies
           /\ last'.op = "seed"
           /\ last'.searches = 0 /\ last'.lookups = 0)]_vars

\* C9 witness: the routine ended without a provider call on 10 or more rows.
C9_Witness ==
    /\ pc = "serving" /\ last.op = "seed" /\ last.status = "skipped"
    /\ last.searches = 0 /\ last.lookups = 0
    /\ Cardinality(movies) >= 10

\* The seeding routine ran below 10 records with the provider configured and
\* reached its end: the search returned titles and every lookup returned
\* data.
SeedSucceeded ==
    /\ last.op = "seed" /\ last.status = "finished"
    /\ omdb_api_key /\ last.start < 10
    /\ last.searches = 1 /\ last.lookups >= 1 /\ last.hits = last.lookups

\* C10 as stated: when the routine ran below 10 records and every provider
\* call succeeded, the table holds at least 10 records at its end.
C10_SeedReachesTen ==
    SeedSucceeded => Cardinality(movies) >= 10

\* C10 amended: when the routine ran below 10 records and every provider
\* call succeeded, at its end every (title, year) a lookup returned is matched
\* by a stored record, no record was removed, and at most one record was
\* added per distinct (title, year) returned, at most 10 in all; the table
\* holds 10 records only if that adds up to 10.
C10_SeedEnsuresEachHit ==
    SeedSucceeded =>
        /\ \A k \in last.ensured :
               \E m \in movies : m.title = k.title /\ (Truthy(k.year) => m.year = k.year)
        /\ Cardinality(movies) >= last.start
        /\ Cardinality(movies) <= last.start + Cardinality(last.ensured)
        /\ Cardinality(last.ensured) <= last.hits
        /\ last.hits <= 10

\* C10 witness: the routine ran on fewer than 10 records, every call
\* succeeded, it added a record, and the table still holds fewer than 10.
C10_Witness ==
    /\ SeedSucceeded
    /\ Cardinality(movies) > last.start
    /\ Cardinality(movies) < 10

C12_OneCommitPerPair ==
    \A w \in Workers : \A v \in Workers :
        (/\ w # v
         /\ reqs[w].at = "done" /\ reqs[v].at = "done"
         /\ reqs[w].incoming.title = reqs[v].incoming.title
         /\ reqs[w].incoming.year = reqs[v].incoming.year)
            => ~(reqs[w].status = 201 /\ reqs[v].status = 201)

====
